---------------------------- MODULE Spec2Model ----------------------------
(***************************************************************************)
(* A model of the "Creative Suite" front-end: the presentation shell (App),*)
(* the single-image workflow (ImageStudio) and the storyboard workflow     *)
(* (StoryboardGenerator) with its character acquisition.                   *)
(*                                                                         *)
(* A JavaScript string is a sequence of tokens: the characters that the    *)
(* code looks at (" ", "\n", "|") are tokens of their own, every other     *)
(* token stands for a run of ordinary characters ("a", "loading").         *)
(* null / undefined is the empty tuple; a present value x is <<x>>.        *)
(*                                                                         *)
(* Every await of the code is a suspension point: the code up to the await *)
(* is one action, the code after it (up to the next await or the end of    *)
(* the handler) is another one.  React applies the state updates queued by *)
(* one such piece of code before the next event is handled.                *)
(***************************************************************************)
EXTENDS Naturals, Sequences, FiniteSets

\* ------------------------------------------------------------- bounds
\* most handler invocations left running by components that were unmounted
MaxOrphans == 1

\* ------------------------------------------------------------- values
Null == <<>>
Some(x) == <<x>>

SP == " "
NL == "\n"
BAR == "|"

\* The texts typed as prompt or character description: '', ' ', ' a'.
TextInputs == { <<>>, <<SP>>, <<SP, "a">> }

\* The scripts typed:
\*   ''                         (the initial script)
\*   ' \n '                     (blank lines only)
\*   'a | b\nc'                 (two lines, the first with scene and caption)
\*   'loading\n \nb | c|d\n'    (two lines around a blank one; the first is
\*                               the word 'loading', the second has two '|')
ScriptInputs ==
  { <<>>,
    <<SP, NL, SP>>,
    <<"a", SP, BAR, SP, "b", NL, "c">>,
    <<"loading", NL, SP, NL, "b", SP, BAR, SP, "c", BAR, "d", NL>> }

\* The files a user may select: an image and a file that is no image.
MimePng == [type |-> "image", subtype |-> "png"]
MimePlain == [type |-> "text", subtype |-> "plain"]
FileInputs == { [type |-> MimePng, content |-> "u1"], [type |-> MimePlain, content |-> "t1"] }

\* ------------------------------------------------- string functions (JS)
IsSpace(c) == c \in {SP, NL}

RECURSIVE TrimStart(_)
TrimStart(s) ==
  IF s # <<>> /\ IsSpace(Head(s)) THEN TrimStart(Tail(s)) ELSE s

RECURSIVE TrimEnd(_)
TrimEnd(s) ==
  IF s # <<>> /\ IsSpace(s[Len(s)]) THEN TrimEnd(SubSeq(s, 1, Len(s) - 1)) ELSE s

\* String.prototype.trim
Trim(s) == TrimEnd(TrimStart(s))

\* String.prototype.split(sep) for a one-character separator: every piece
\* between separators, empty pieces included; "" splits into [""].
RECURSIVE Split(_, _)
Split(s, sep) ==
  IF \E i \in 1..Len(s) : s[i] = sep
  THEN LET i == CHOOSE j \in 1..Len(s) : s[j] = sep /\ \A k \in 1..(j - 1) : s[k] # sep
       IN  <<SubSeq(s, 1, i - 1)>> \o Split(SubSeq(s, i + 1, Len(s)), sep)
  ELSE <<s>>

\* Array.prototype.map(s => s.trim())
MapTrim(pieces) == [i \in 1..Len(pieces) |-> Trim(pieces[i])]

\* fileToBase64: the data URL "data:<type>;base64,<payload>" split on ","
\* and its second piece taken.
ReadAsDataURL(file) == << <<"data:", file.type.type, "/", file.type.subtype, ";base64">>, file.content >>
fileToBase64(file) == ReadAsDataURL(file)[2]

\* file.type.startsWith('image/')
IsImageFile(file) == file.type.type = "image"

\* ------------------------------------------------ the external service
\* A request part and a response part.
InlineDataPart(data, mimeType) == [kind |-> "inlineData", data |-> data, mimeType |-> mimeType]
TextPart(text) == [kind |-> "text", text |-> text]

\* What ai.models.generateContent can do with a request: return a response
\* (the parts of its first candidate, none when there is no candidate), or
\* throw (an Error with a message, or something that is no Error).
ServiceReplies ==
  { [threw |-> FALSE, parts |-> <<TextPart(<<"note">>), InlineDataPart("g1", MimePng)>>, isError |-> FALSE, message |-> ""],
    [threw |-> FALSE, parts |-> <<TextPart(<<"note">>)>>, isError |-> FALSE, message |-> ""],
    [threw |-> FALSE, parts |-> <<>>, isError |-> FALSE, message |-> ""],
    [threw |-> TRUE, parts |-> <<>>, isError |-> TRUE, message |-> "Failed to fetch"],
    [threw |-> TRUE, parts |-> <<>>, isError |-> FALSE, message |-> ""] }

\* response.candidates?.[0]?.content?.parts?.find(part => part.inlineData)
FindInlineData(parts) ==
  IF \E i \in 1..Len(parts) : parts[i].kind = "inlineData"
  THEN Some(parts[CHOOSE i \in 1..Len(parts) :
                    parts[i].kind = "inlineData" /\ \A k \in 1..(i - 1) : parts[k].kind # "inlineData"])
  ELSE Null

\* `data:${mimeType};base64,${data}`
DataUrl(mimeType, data) == [tag |-> "data", mimeType |-> mimeType, data |-> data]
\* the src '' of a placeholder and the src 'error' of a failed panel
EmptySrc == [tag |-> "empty", mimeType |-> MimePlain, data |-> ""]
ErrorSrc == [tag |-> "error", mimeType |-> MimePlain, data |-> ""]

\* e instanceof Error ? e.message : fallback
ErrorText(reply, fallback) == IF reply.isError THEN reply.message ELSE fallback

\* ---------------------------------------------------------------- state
VARIABLES
  activeTool,   \* App: which workflow is displayed
  studio,       \* ImageStudio: the state of the mounted (or next mounted) instance
  studioRead,   \* ImageUploader: files whose fileToBase64 has not resolved yet
  studioGen,    \* ImageStudio.handleGenerate suspended at its await, or Null
  sb,           \* StoryboardGenerator: the state of the mounted (or next mounted) instance
  sbRead,       \* CharacterUploader: files whose fileToBase64 has not resolved yet
  charGen,      \* handleCreateCharacter suspended at its await, or Null
  sbGen,        \* StoryboardGenerator.handleGenerate suspended at its await, or Null
  orphans,      \* handlers still suspended at an await whose component was unmounted
  last,         \* history: the handler that ran last and how it ended
  trip          \* history: the workflow state saved when the workflow was left

vars == <<activeTool, studio, studioRead, studioGen, sb, sbRead, charGen, sbGen, orphans, last, trip>>

Tools == {"imageStudio", "storyboard"}

\* useState initial values of ImageStudio
StudioInit ==
  [prompt |-> <<>>, inputImage |-> Null, outputImage |-> Null, isLoading |-> FALSE, error |-> Null]

\* useState initial values of StoryboardGenerator
StoryboardInit ==
  [character |-> Null, characterCreationMode |-> "upload", characterDescription |-> <<>>,
   isCreatingCharacter |-> FALSE, script |-> <<>>, storyboard |-> <<>>,
   isLoading |-> FALSE, error |-> Null]

NoTrip == [phase |-> "none", tool |-> "", before |-> <<>>]
Did(op, info) == [op |-> op, info |-> info]

Init ==
  /\ activeTool = "imageStudio"
  /\ studio = StudioInit
  /\ studioRead = {}
  /\ studioGen = Null
  /\ sb = StoryboardInit
  /\ sbRead = {}
  /\ charGen = Null
  /\ sbGen = Null
  /\ orphans = <<>>
  /\ last = Did("mount", "")
  /\ trip = NoTrip

StudioVars == <<studio, studioRead, studioGen>>
StoryboardVars == <<sb, sbRead, charGen, sbGen>>

\* ------------------------------------------------------------------ App
\* The handlers of the displayed workflow that are suspended at a service call.
\* A storyboard run keeps only what it still does once nothing it sets is
\* rendered: the number of calls it has yet to issue.
Orphaned(tool) ==
  IF tool = "imageStudio"
  THEN (IF studioGen # Null THEN <<[kind |-> "studioGen", remaining |-> 0]>> ELSE <<>>)
  ELSE (IF charGen # Null THEN <<[kind |-> "charGen", remaining |-> 0]>> ELSE <<>>)
       \o (IF sbGen # Null
           THEN <<[kind |-> "sbGen", remaining |-> Len(sbGen[1].scriptLines) - sbGen[1].issued]>>
           ELSE <<>>)

\* What a workflow's state is after the workflow was left: `cond && <Component />`
\* unmounts the component, and the next mount starts from useState's initial values.
StudioAfterLeave(st) == StudioInit
StoryboardAfterLeave(st) == StoryboardInit

\* NavItem onClick: setActiveTool(tool)
setActiveTool(tool) ==
  /\ tool \in Tools
  /\ IF tool = activeTool
     THEN UNCHANGED vars
     ELSE /\ Len(orphans) + Len(Orphaned(activeTool)) <= MaxOrphans
          /\ activeTool' = tool
          /\ orphans' = orphans \o Orphaned(activeTool)
          /\ IF activeTool = "imageStudio"
             THEN /\ studio' = StudioAfterLeave(studio)
                  /\ studioRead' = {}
                  /\ studioGen' = Null
                  /\ UNCHANGED StoryboardVars
             ELSE /\ sb' = StoryboardAfterLeave(sb)
                  /\ sbRead' = {}
                  /\ charGen' = Null
                  /\ sbGen' = Null
                  /\ UNCHANGED StudioVars
          /\ last' = Did("setActiveTool", tool)
          /\ trip' = IF trip.phase = "away" /\ trip.tool = tool
                     THEN [trip EXCEPT !.phase = "back"]
                     ELSE [phase |-> "away", tool |-> activeTool,
                           before |-> IF activeTool = "imageStudio" THEN studio ELSE sb]

\* A handler of an unmounted component resumes: what it sets is dropped; a
\* storyboard run goes on to its next line's call unless this call threw.
OrphanReply(i, reply) ==
  /\ i \in 1..Len(orphans)
  /\ reply \in ServiceReplies
  /\ LET o == orphans[i]
         rest == SubSeq(orphans, 1, i - 1) \o SubSeq(orphans, i + 1, Len(orphans))
     IN  orphans' = IF o.kind = "sbGen" /\ ~reply.threw /\ o.remaining > 0
                    THEN [orphans EXCEPT ![i].remaining = o.remaining - 1]
                    ELSE rest
  /\ last' = Did("orphanReply", "")
  /\ trip' = NoTrip
  /\ UNCHANGED <<activeTool, StudioVars, StoryboardVars>>

\* ---------------------------------------------------------- ImageStudio
\* textarea onChange: setPrompt(e.target.value); disabled while loading
ImageStudio_setPrompt(text) ==
  /\ activeTool = "imageStudio"
  /\ ~studio.isLoading
  /\ text \in TextInputs
  /\ text # studio.prompt
  /\ studio' = [studio EXCEPT !.prompt = text]
  /\ last' = Did("studio.setPrompt", "")
  /\ trip' = NoTrip
  /\ UNCHANGED <<activeTool, studioRead, studioGen, StoryboardVars, orphans>>

\* ImageUploader.handleFileChange up to its await: rendered while there is no
\* input image; a file that is no image is answered with an alert.
ImageUploader_handleFileChange(file) ==
  /\ activeTool = "imageStudio"
  /\ studio.inputImage = Null
  /\ file \in FileInputs
  /\ studioRead' = IF IsImageFile(file) THEN studioRead \cup {file} ELSE studioRead
  /\ last' = Did("studio.handleFileChange", IF IsImageFile(file) THEN "reading" ELSE "alert")
  /\ trip' = NoTrip
  /\ UNCHANGED <<activeTool, studio, studioGen, StoryboardVars, orphans>>

\* ImageStudio.handleImageUpload
ImageStudio_handleImageUpload(st, image) ==
  [st EXCEPT !.inputImage = Some(image), !.outputImage = Null, !.error = Null]

\* ImageUploader.handleFileChange after its await: the read resolved
\* (onImageUpload is called) or was rejected (nothing is set).
ImageUploader_fileRead(file, ok) ==
  /\ file \in studioRead
  /\ ok \in BOOLEAN
  /\ studioRead' = studioRead \ {file}
  /\ studio' = IF ok
               THEN ImageStudio_handleImageUpload(studio, [file |-> file, base64 |-> fileToBase64(file)])
               ELSE studio
  /\ last' = Did("studio.handleImageUpload", IF ok THEN "uploaded" ELSE "rejected")
  /\ trip' = NoTrip
  /\ UNCHANGED <<activeTool, studioGen, StoryboardVars, orphans>>

\* ImageStudio.handleClearImage; its button is rendered with the input image
ImageStudio_handleClearImage ==
  /\ activeTool = "imageStudio"
  /\ studio.inputImage # Null
  /\ studio' = [studio EXCEPT !.inputImage = Null]
  /\ last' = Did("studio.handleClearImage", "")
  /\ trip' = NoTrip
  /\ UNCHANGED <<activeTool, studioRead, studioGen, StoryboardVars, orphans>>

\* StudioParts with the text part pushed before the image part
StudioParts_TextFirst(prompt, inputImage) ==
  <<TextPart(prompt)>>
  \o (IF inputImage # Null
      THEN <<InlineDataPart(inputImage[1].base64, inputImage[1].file.type)>>
      ELSE <<>>)

\* the parts of ImageStudio.handleGenerate's request
StudioParts(prompt, inputImage) ==
  (IF inputImage # Null
   THEN <<InlineDataPart(inputImage[1].base64, inputImage[1].file.type)>>
   ELSE <<>>)
  \o <<TextPart(prompt)>>

\* StudioPromptIsBlank without the trim: only '' is rejected
StudioPromptIsBlank_NoTrim(prompt) == prompt = <<>>

\* ImageStudio.handleGenerate's check of the prompt
StudioPromptIsBlank(prompt) == Trim(prompt) = <<>>

\* ImageStudio.handleGenerate up to its await.  The button is disabled while
\* the prompt is the empty string or a generation is loading.
ImageStudio_handleGenerate ==
  /\ activeTool = "imageStudio"
  /\ studio.prompt # <<>>
  /\ ~studio.isLoading
  /\ IF StudioPromptIsBlank(studio.prompt)
     THEN /\ studio' = [studio EXCEPT !.error = Some("Please enter a prompt.")]
          /\ studioGen' = studioGen
          /\ last' = Did("studio.handleGenerate", "rejected")
     ELSE /\ studio' = [studio EXCEPT !.isLoading = TRUE, !.error = Null, !.outputImage = Null]
          /\ studioGen' = Some([parts |-> StudioParts(studio.prompt, studio.inputImage)])
          /\ last' = Did("studio.handleGenerate", "started")
  /\ trip' = NoTrip
  /\ UNCHANGED <<activeTool, studioRead, StoryboardVars, orphans>>

\* StudioAfterReply without the finally block after a failure
StudioAfterReply_NoFinally(st, reply) ==
  LET imagePart == IF reply.threw THEN Null ELSE FindInlineData(reply.parts)
  IN  IF reply.threw
      THEN [st EXCEPT !.error = Some(ErrorText(reply, "An unknown error occurred."))]
      ELSE IF imagePart # Null
      THEN [st EXCEPT !.outputImage = Some(DataUrl(imagePart[1].mimeType, imagePart[1].data)),
                      !.isLoading = FALSE]
      ELSE [st EXCEPT !.error = Some("Image generation failed. The model did not return an image.")]

\* ImageStudio.handleGenerate after its await: the response, catch and finally
StudioAfterReply(st, reply) ==
  LET imagePart == IF reply.threw THEN Null ELSE FindInlineData(reply.parts)
  IN  IF reply.threw
      THEN [st EXCEPT !.error = Some(ErrorText(reply, "An unknown error occurred.")),
                      !.isLoading = FALSE]
      ELSE IF imagePart # Null
      THEN [st EXCEPT !.outputImage = Some(DataUrl(imagePart[1].mimeType, imagePart[1].data)),
                      !.isLoading = FALSE]
      ELSE [st EXCEPT !.error = Some("Image generation failed. The model did not return an image."),
                      !.isLoading = FALSE]

ImageStudio_generateReply(reply) ==
  /\ studioGen # Null
  /\ reply \in ServiceReplies
  /\ studio' = StudioAfterReply(studio, reply)
  /\ studioGen' = Null
  /\ last' = Did("studio.generateReply",
                 IF reply.threw THEN "threw"
                 ELSE IF FindInlineData(reply.parts) # Null THEN "image" ELSE "noimage")
  /\ trip' = NoTrip
  /\ UNCHANGED <<activeTool, studioRead, StoryboardVars, orphans>>

StudioNext ==
  \/ \E text \in TextInputs : ImageStudio_setPrompt(text)
  \/ \E file \in FileInputs : ImageUploader_handleFileChange(file)
  \/ \E file \in FileInputs, ok \in BOOLEAN : ImageUploader_fileRead(file, ok)
  \/ ImageStudio_handleClearImage
  \/ ImageStudio_handleGenerate
  \/ \E reply \in ServiceReplies : ImageStudio_generateReply(reply)

\* -------------------------------------------------- StoryboardGenerator
\* ModeButton onClick: setCharacterCreationMode(mode); rendered while there is no character
setCharacterCreationMode(mode) ==
  /\ activeTool = "storyboard"
  /\ sb.character = Null
  /\ mode \in {"upload", "describe"}
  /\ mode # sb.characterCreationMode
  /\ sb' = [sb EXCEPT !.characterCreationMode = mode]
  /\ last' = Did("sb.setCharacterCreationMode", mode)
  /\ trip' = NoTrip
  /\ UNCHANGED <<activeTool, StudioVars, sbRead, charGen, sbGen, orphans>>

\* CharacterUploader.handleFileChange up to its await: rendered while there is
\* no character and the mode is 'upload'
CharacterUploader_handleFileChange(file) ==
  /\ activeTool = "storyboard"
  /\ sb.character = Null
  /\ sb.characterCreationMode = "upload"
  /\ file \in FileInputs
  /\ sbRead' = IF IsImageFile(file) THEN sbRead \cup {file} ELSE sbRead
  /\ last' = Did("sb.handleFileChange", IF IsImageFile(file) THEN "reading" ELSE "alert")
  /\ trip' = NoTrip
  /\ UNCHANGED <<activeTool, StudioVars, sb, charGen, sbGen, orphans>>

\* StoryboardGenerator.handleImageUpload
StoryboardGenerator_handleImageUpload(st, image) ==
  [st EXCEPT !.character = Some([base64 |-> image.base64, mimeType |-> image.file.type,
                                 file |-> Some(image.file)]),
             !.storyboard = <<>>,
             !.error = Null]

\* CharacterUploader.handleFileChange after its await
CharacterUploader_fileRead(file, ok) ==
  /\ file \in sbRead
  /\ ok \in BOOLEAN
  /\ sbRead' = sbRead \ {file}
  /\ sb' = IF ok
           THEN StoryboardGenerator_handleImageUpload(sb, [file |-> file, base64 |-> fileToBase64(file)])
           ELSE sb
  /\ last' = Did("sb.handleImageUpload", IF ok THEN "uploaded" ELSE "rejected")
  /\ trip' = NoTrip
  /\ UNCHANGED <<activeTool, StudioVars, charGen, sbGen, orphans>>

\* ClearCharacter without setStoryboard([])
ClearCharacter_KeepsPanels(st) ==
  [st EXCEPT !.character = Null, !.characterDescription = <<>>]

\* the state updates of StoryboardGenerator.handleClearCharacter
ClearCharacter(st) ==
  [st EXCEPT !.character = Null, !.storyboard = <<>>, !.characterDescription = <<>>]

\* StoryboardGenerator.handleClearCharacter; its button is rendered with the
\* character, whether or not a run is loading
handleClearCharacter ==
  /\ activeTool = "storyboard"
  /\ sb.character # Null
  /\ sb' = ClearCharacter(sb)
  /\ last' = Did("sb.handleClearCharacter", IF sb.storyboard # <<>> THEN "panels" ELSE "nopanels")
  /\ trip' = NoTrip
  /\ UNCHANGED <<activeTool, StudioVars, sbRead, charGen, sbGen, orphans>>

\* description textarea onChange; rendered while there is no character and the
\* mode is 'describe', disabled while a character is being created
setCharacterDescription(text) ==
  /\ activeTool = "storyboard"
  /\ sb.character = Null
  /\ sb.characterCreationMode = "describe"
  /\ ~sb.isCreatingCharacter
  /\ text \in TextInputs
  /\ text # sb.characterDescription
  /\ sb' = [sb EXCEPT !.characterDescription = text]
  /\ last' = Did("sb.setCharacterDescription", "")
  /\ trip' = NoTrip
  /\ UNCHANGED <<activeTool, StudioVars, sbRead, charGen, sbGen, orphans>>

\* the prompt template of handleCreateCharacter around the raw description
CharacterPrompt(description) == [template |-> "characterSheet", description |-> description]

\* handleCreateCharacter up to its await; its button is rendered like the
\* description textarea and disabled while the description is '' or a
\* character is being created
handleCreateCharacter ==
  /\ activeTool = "storyboard"
  /\ sb.character = Null
  /\ sb.characterCreationMode = "describe"
  /\ sb.characterDescription # <<>>
  /\ ~sb.isCreatingCharacter
  /\ IF Trim(sb.characterDescription) = <<>>
     THEN /\ sb' = [sb EXCEPT !.error = Some("Please describe the character you want to create.")]
          /\ charGen' = charGen
          /\ last' = Did("sb.handleCreateCharacter", "rejected")
     ELSE /\ sb' = [sb EXCEPT !.isCreatingCharacter = TRUE, !.error = Null]
          /\ charGen' = Some([parts |-> <<TextPart(CharacterPrompt(sb.characterDescription))>>])
          /\ last' = Did("sb.handleCreateCharacter", "started")
  /\ trip' = NoTrip
  /\ UNCHANGED <<activeTool, StudioVars, sbRead, sbGen, orphans>>

\* handleCreateCharacter after its await: the response, catch and finally
CharacterAfterReply(st, reply) ==
  LET imagePart == IF reply.threw THEN Null ELSE FindInlineData(reply.parts)
  IN  IF reply.threw
      THEN [st EXCEPT !.error = Some(ErrorText(reply, "An unknown error occurred while creating the character.")),
                      !.isCreatingCharacter = FALSE]
      ELSE IF imagePart # Null
      THEN [st EXCEPT !.character = Some([base64 |-> imagePart[1].data,
                                          mimeType |-> imagePart[1].mimeType, file |-> Null]),
                      !.storyboard = <<>>,
                      !.isCreatingCharacter = FALSE]
      ELSE [st EXCEPT !.error = Some("The AI failed to generate a character. Please try again."),
                      !.isCreatingCharacter = FALSE]

createCharacterReply(reply) ==
  /\ charGen # Null
  /\ reply \in ServiceReplies
  /\ sb' = CharacterAfterReply(sb, reply)
  /\ charGen' = Null
  /\ last' = Did("sb.createCharacterReply",
                 IF reply.threw THEN "threw"
                 ELSE IF FindInlineData(reply.parts) # Null THEN "image" ELSE "noimage")
  /\ trip' = NoTrip
  /\ UNCHANGED <<activeTool, StudioVars, sbRead, sbGen, orphans>>

\* script textarea onChange: setScript(e.target.value); disabled while loading
setScript(text) ==
  /\ activeTool = "storyboard"
  /\ ~sb.isLoading
  /\ text \in ScriptInputs
  /\ text # sb.script
  /\ sb' = [sb EXCEPT !.script = text]
  /\ last' = Did("sb.setScript", "")
  /\ trip' = NoTrip
  /\ UNCHANGED <<activeTool, StudioVars, sbRead, charGen, sbGen, orphans>>

\* ScriptLines without the filter: blank lines stay in the work plan
ScriptLines_KeepsBlank(script) == Split(Trim(script), NL)

\* script.trim().split('\n').filter(line => line.trim() !== '')
IsNonBlankLine(line) == Trim(line) # <<>>
ScriptLines(script) == SelectSeq(Split(Trim(script), NL), IsNonBlankLine)

\* PanelPrompt without the trim of the pieces
PanelPrompt_Untrimmed(line) ==
  LET pieces == Split(line, BAR)
      sceneDescription == pieces[1]
      textContent == IF Len(pieces) >= 2 THEN Some(pieces[2]) ELSE Null
  IN  [template |-> "panel", scene |-> sceneDescription,
       caption |-> IF textContent # Null /\ textContent[1] # <<>> THEN textContent ELSE Null]

\* fullPrompt of a line: the fixed panel instruction around the scene
\* description, and the caption instruction around textContent when
\* textContent is truthy.  [sceneDescription, textContent] are the first two
\* of line.split('|').map(s => s.trim()).
PanelPrompt(line) ==
  LET pieces == MapTrim(Split(line, BAR))
      sceneDescription == pieces[1]
      textContent == IF Len(pieces) >= 2 THEN Some(pieces[2]) ELSE Null
  IN  [template |-> "panel", scene |-> sceneDescription,
       caption |-> IF textContent # Null /\ textContent[1] # <<>> THEN textContent ELSE Null]

\* the parts of the request of one line
PanelParts(character, line) ==
  <<InlineDataPart(character.base64, character.mimeType), TextPart(PanelPrompt(line))>>

\* { id: `loading-${prev.length}`, src: '', prompt: 'loading' }
Placeholder(prev) == [id |-> <<"loading", Len(prev)>>, src |-> EmptySrc, prompt |-> <<"loading">>]

\* FinalPanel labelled with the scene description instead of the line
FinalPanel_SceneAsLabel(newPanels, line, imagePart) ==
  [id |-> <<"panel", Len(newPanels)>>,
   src |-> IF imagePart # Null THEN DataUrl(imagePart[1].mimeType, imagePart[1].data) ELSE ErrorSrc,
   prompt |-> MapTrim(Split(line, BAR))[1]]

\* the panel pushed for a line: the returned image, or src 'error'; its id
\* (a time stamp and a random number) is the panel's place in the run here
FinalPanel(newPanels, line, imagePart) ==
  [id |-> <<"panel", Len(newPanels)>>,
   src |-> IF imagePart # Null THEN DataUrl(imagePart[1].mimeType, imagePart[1].data) ELSE ErrorSrc,
   prompt |-> line]

\* StartRun with the calls of all lines issued at once
StartRun_AllAtOnce(character, scriptLines) ==
  [character |-> character, scriptLines |-> scriptLines, newPanels |-> <<>>,
   issued |-> Len(scriptLines),
   parts |-> PanelParts(character, scriptLines[Len(scriptLines)])]

\* the run of handleGenerate at its first await: the work plan, no panel yet,
\* the first line's call issued with the character of this render
StartRun(character, scriptLines) ==
  [character |-> character, scriptLines |-> scriptLines, newPanels |-> <<>>, issued |-> 1,
   parts |-> PanelParts(character, scriptLines[1])]

\* ScriptIsBlank without the trim: only '' is rejected
ScriptIsBlank_NoTrim(script) == script = <<>>

\* StoryboardGenerator.handleGenerate's check of the script
ScriptIsBlank(script) == Trim(script) = <<>>

\* StoryboardGenerator.handleGenerate up to its first await.  The button is
\* disabled while there is no character, the script is '' or a run is loading.
\* With no line in the work plan the loop body never runs and the handler
\* ends at once.
StoryboardGenerator_handleGenerate ==
  /\ activeTool = "storyboard"
  /\ sb.character # Null
  /\ sb.script # <<>>
  /\ ~sb.isLoading
  /\ IF sb.character = Null
     THEN /\ sb' = [sb EXCEPT !.error = Some("Please upload or create a character reference image.")]
          /\ sbGen' = sbGen
          /\ last' = Did("sb.handleGenerate", "rejected")
     ELSE IF ScriptIsBlank(sb.script)
     THEN /\ sb' = [sb EXCEPT !.error = Some("Please enter a script for the storyboard.")]
          /\ sbGen' = sbGen
          /\ last' = Did("sb.handleGenerate", "rejected")
     ELSE IF ScriptLines(sb.script) = <<>>
     THEN /\ sb' = [sb EXCEPT !.isLoading = FALSE, !.error = Null, !.storyboard = <<>>]
          /\ sbGen' = sbGen
          /\ last' = Did("sb.handleGenerate", "empty")
     ELSE /\ sb' = [sb EXCEPT !.isLoading = TRUE, !.error = Null,
                              !.storyboard = <<Placeholder(<<>>)>>]
          /\ sbGen' = Some(StartRun(sb.character[1], ScriptLines(sb.script)))
          /\ last' = Did("sb.handleGenerate", "started")
  /\ trip' = NoTrip
  /\ UNCHANGED <<activeTool, StudioVars, sbRead, charGen, orphans>>

\* RunContinues with the loop ending one line early
RunContinues_StopsEarly(run, reply) == ~reply.threw /\ run.issued + 1 < Len(run.scriptLines)

\* whether the loop of handleGenerate goes on after the reply to a call
RunContinues(run, reply) == ~reply.threw /\ run.issued < Len(run.scriptLines)

\* RunAfterReply with the panel of the line put in front of the captured ones
RunAfterReply_Prepends(run, reply) ==
  LET line == run.scriptLines[run.issued]
      newPanels == <<FinalPanel(run.newPanels, line, FindInlineData(reply.parts))>> \o run.newPanels
  IN  IF RunContinues(run, reply)
      THEN [run EXCEPT !.newPanels = newPanels, !.issued = run.issued + 1,
                       !.parts = PanelParts(run.character, run.scriptLines[run.issued + 1])]
      ELSE [run EXCEPT !.newPanels = newPanels]

\* the run after the reply to its outstanding call: the panel of the line is
\* pushed to newPanels and, when lines are left, the next line's call is issued
RunAfterReply(run, reply) ==
  LET line == run.scriptLines[run.issued]
      newPanels == Append(run.newPanels, FinalPanel(run.newPanels, line, FindInlineData(reply.parts)))
  IN  IF RunContinues(run, reply)
      THEN [run EXCEPT !.newPanels = newPanels, !.issued = run.issued + 1,
                       !.parts = PanelParts(run.character, run.scriptLines[run.issued + 1])]
      ELSE [run EXCEPT !.newPanels = newPanels]

\* StoryboardAfterReply with the catch block emptying the panel list
StoryboardAfterReply_ThrowDropsPanels(st, run, reply) ==
  IF reply.threw
  THEN [st EXCEPT !.error = Some(ErrorText(reply, "An unknown error occurred during generation.")),
                  !.storyboard = <<>>,
                  !.isLoading = FALSE]
  ELSE LET newPanels == RunAfterReply(run, reply).newPanels
       IN  IF RunContinues(run, reply)
           THEN [st EXCEPT !.storyboard = Append(newPanels, Placeholder(newPanels))]
           ELSE [st EXCEPT !.storyboard = newPanels, !.isLoading = FALSE]

\* the state after the reply: setStoryboard([...newPanels]) and the next
\* line's placeholder, or catch and finally
StoryboardAfterReply(st, run, reply) ==
  IF reply.threw
  THEN [st EXCEPT !.error = Some(ErrorText(reply, "An unknown error occurred during generation.")),
                  !.isLoading = FALSE]
  ELSE LET newPanels == RunAfterReply(run, reply).newPanels
       IN  IF RunContinues(run, reply)
           THEN [st EXCEPT !.storyboard = Append(newPanels, Placeholder(newPanels))]
           ELSE [st EXCEPT !.storyboard = newPanels, !.isLoading = FALSE]

\* StoryboardGenerator.handleGenerate from one await to the next, or to its end
generateReply(reply) ==
  /\ sbGen # Null
  /\ reply \in ServiceReplies
  /\ sb' = StoryboardAfterReply(sb, sbGen[1], reply)
  /\ sbGen' = IF RunContinues(sbGen[1], reply) THEN Some(RunAfterReply(sbGen[1], reply)) ELSE Null
  /\ last' = Did("sb.generateReply",
                 IF reply.threw THEN "threw"
                 ELSE IF FindInlineData(reply.parts) # Null THEN "image" ELSE "noimage")
  /\ trip' = NoTrip
  /\ UNCHANGED <<activeTool, StudioVars, sbRead, charGen, orphans>>

StoryboardNext ==
  \/ \E mode \in {"upload", "describe"} : setCharacterCreationMode(mode)
  \/ \E file \in FileInputs : CharacterUploader_handleFileChange(file)
  \/ \E file \in FileInputs, ok \in BOOLEAN : CharacterUploader_fileRead(file, ok)
  \/ handleClearCharacter
  \/ \E text \in TextInputs : setCharacterDescription(text)
  \/ handleCreateCharacter
  \/ \E reply \in ServiceReplies : createCharacterReply(reply)
  \/ \E text \in ScriptInputs : setScript(text)
  \/ StoryboardGenerator_handleGenerate
  \/ \E reply \in ServiceReplies : generateReply(reply)

Next ==
  \/ \E tool \in Tools : setActiveTool(tool)
  \/ \E i \in 1..MaxOrphans, reply \in ServiceReplies : OrphanReply(i, reply)
  \/ StudioNext
  \/ StoryboardNext

Spec == Init /\ [][Next]_vars

\* The scripts typed in the runs checked for progress: those of ScriptInputs
\* with at most one '|' in a line.
FairScriptInputs ==
  { text \in ScriptInputs : \A i, j \in 1..Len(text) : (text[i] = BAR /\ text[j] = BAR) => i = j }

\* Next with the scripts of FairScriptInputs
FairNext ==
  \/ \E tool \in Tools : setActiveTool(tool)
  \/ \E i \in 1..MaxOrphans, reply \in ServiceReplies : OrphanReply(i, reply)
  \/ StudioNext
  \/ \E mode \in {"upload", "describe"} : setCharacterCreationMode(mode)
  \/ \E file \in FileInputs : CharacterUploader_handleFileChange(file)
  \/ \E file \in FileInputs, ok \in BOOLEAN : CharacterUploader_fileRead(file, ok)
  \/ handleClearCharacter
  \/ \E text \in TextInputs : setCharacterDescription(text)
  \/ handleCreateCharacter
  \/ \E reply \in ServiceReplies : createCharacterReply(reply)
  \/ \E text \in FairScriptInputs : setScript(text)
  \/ StoryboardGenerator_handleGenerate
  \/ \E reply \in ServiceReplies : generateReply(reply)

\* every outstanding service call of a displayed workflow returns a response
\* or throws in the end: the awaits of the three handlers
ServiceResponds ==
  /\ WF_vars(\E reply \in ServiceReplies : ImageStudio_generateReply(reply))
  /\ WF_vars(\E reply \in ServiceReplies : createCharacterReply(reply))
  /\ WF_vars(\E reply \in ServiceReplies : generateReply(reply))

FairSpec == Init /\ [][FairNext]_vars /\ ServiceResponds

\* ---------------------------------------------------------------------
\* What the claims speak of, computed from the script text itself.

\* the pieces of s between "\n" tokens, from position i on, cur being the
\* piece read so far
RECURSIVE Segments(_, _, _)
Segments(s, i, cur) ==
  IF i > Len(s) THEN <<cur>>
  ELSE IF s[i] = NL THEN <<cur>> \o Segments(s, i + 1, <<>>)
  ELSE Segments(s, i + 1, Append(cur, s[i]))

HasInk(piece) == \E i \in 1..Len(piece) : piece[i] # SP

\* the non-blank lines of a script, in script order
NonBlankLines(script) == SelectSeq(Segments(script, 1, <<>>), HasInk)

\* a text of white space only (the empty text included)
AllWhitespace(text) == \A i \in 1..Len(text) : text[i] \in {SP, NL}

\* a step of the displayed storyboard workflow in which its run resumes
RunResumes == sbGen # Null /\ last'.op = "sb.generateReply"

\* the run's work plan is the script's non-blank lines, in script order
\* (the first and the last one without the white space script.trim() drops)
PlanFollowsScript(run, script) ==
  /\ Len(run.scriptLines) = Len(NonBlankLines(script))
  /\ \A i \in 1..Len(run.scriptLines) :
       /\ Trim(run.scriptLines[i]) = Trim(NonBlankLines(script)[i])
       /\ 1 < i /\ i < Len(run.scriptLines) => run.scriptLines[i] = NonBlankLines(script)[i]

\* ------------------------------------------------------------------ C1
\* C1 as stated: during a run of the displayed storyboard workflow the panel
\* list never gets shorter and gets longer by at most one per step, and a run
\* that ends has issued one call per non-blank line of the script.
C1_AsStated ==
  [][(sbGen # Null /\ activeTool' = activeTool) =>
       /\ Len(sb'.storyboard) >= Len(sb.storyboard)
       /\ Len(sb'.storyboard) <= Len(sb.storyboard) + 1
       /\ sbGen' = Null => sbGen[1].issued = Len(NonBlankLines(sb.script))]_vars

\* C1, amended: a run issues at most N calls (N the number of non-blank lines
\* of the script), one at a time and in script order, and exactly N unless a
\* call throws, which ends the run; each panel list the run publishes has one
\* entry per call issued so far (1, 2, .., N), and in between the displayed
\* list is the run's last publication or was emptied by a change of character.
C1_CallsAndPublications ==
  [][sbGen # Null =>
       LET run == sbGen[1]
           N == Len(NonBlankLines(sb.script))
       IN  /\ PlanFollowsScript(run, sb.script)
           /\ run.issued <= N
           /\ run.issued = Len(run.newPanels) + 1
           /\ run.parts = PanelParts(run.character, run.scriptLines[run.issued])
           /\ Len(sb.storyboard) \in {0, run.issued}
           /\ RunResumes =>
                IF last'.info = "threw"
                THEN sbGen' = Null
                ELSE IF run.issued < N
                THEN /\ sbGen' # Null
                     /\ sbGen'[1].issued = run.issued + 1
                     /\ Len(sb'.storyboard) = run.issued + 1
                ELSE /\ sbGen' = Null
                     /\ Len(sb'.storyboard) = N]_vars

\* a run of a two-line script has ended with both calls answered
C1_Witness ==
  /\ last.op = "sb.generateReply" /\ last.info # "threw"
  /\ sbGen = Null
  /\ Len(NonBlankLines(sb.script)) = 2
  /\ Len(sb.storyboard) = 2

\* ------------------------------------------------------------------ C2
\* C2 as stated: whenever the call of line k fails, by a response without an
\* image or by throwing, panel k is a failed panel labelled with the line,
\* and the run goes on to line k+1 when there is one.
FailedPanelAndNextLine ==
  LET run == sbGen[1]
      k == run.issued
  IN  /\ Len(sb'.storyboard) >= k
      /\ sb'.storyboard[k].src = ErrorSrc
      /\ sb'.storyboard[k].prompt = run.scriptLines[k]
      /\ sb'.error = sb.error
      /\ IF k < Len(run.scriptLines)
         THEN /\ sb'.isLoading
              /\ sbGen' # Null
              /\ sbGen'[1].issued = k + 1
              /\ sbGen'[1].parts = PanelParts(run.character, run.scriptLines[k + 1])
         ELSE sbGen' = Null

C2_AsStated ==
  [][(RunResumes /\ last'.info \in {"noimage", "threw"}) => FailedPanelAndNextLine]_vars

\* C2, amended: whenever the call of line k returns a response without an
\* image, panel k is a failed panel labelled with the line, no error is set,
\* and the run goes on to line k+1 when there is one.  (A call that throws
\* ends the run: C4.)
C2_NoImageContinues ==
  [][(RunResumes /\ last'.info = "noimage") => FailedPanelAndNextLine]_vars

\* line 1 got a response without an image and the call of line 2 is out
C2_Witness ==
  /\ last.op = "sb.generateReply" /\ last.info = "noimage"
  /\ sbGen # Null
  /\ sbGen[1].issued = 2
  /\ sb.storyboard[1].src = ErrorSrc
  /\ sb.storyboard[1].prompt = sbGen[1].scriptLines[1]

C4_ThrowHaltsRun ==
  [][(RunResumes /\ last'.info = "threw") =>
       /\ sbGen' = Null
       /\ orphans' = orphans
       /\ sb'.error # Null
       /\ sb'.error[1] \in {"Failed to fetch", "An unknown error occurred during generation."}
       /\ sb'.storyboard = sb.storyboard
       /\ ~sb'.isLoading]_vars

\* the call of line 2 threw with panel 1 finalized in the list
C4_Witness ==
  /\ last.op = "sb.generateReply" /\ last.info = "threw"
  /\ sbGen = Null
  /\ Len(sb.storyboard) = 2
  /\ sb.storyboard[1].id[1] = "panel"
  /\ sb.error # Null
  /\ ~sb.isLoading

\* ------------------------------------------------------------------ C5
\* C5: right after the clear-character action there is no character, no
\* panel and no description text.
C5_ClearCharacter ==
  last.op = "sb.handleClearCharacter"
    => /\ sb.character = Null
       /\ sb.storyboard = <<>>
       /\ sb.characterDescription = <<>>

\* the character was cleared while panels existed
C5_Witness ==
  /\ last.op = "sb.handleClearCharacter"
  /\ last.info = "panels"
  /\ sb.storyboard = <<>>

\* ------------------------------------------------------------------ C6
\* C6: a run has exactly one call outstanding, the call of the line after
\* the lines whose panels it has recorded; and when it issues the call of a
\* further line, the panels of all lines before are in the panel list.
C6_Sequential ==
  sbGen # Null =>
    LET run == sbGen[1]
    IN  /\ run.issued - Len(run.newPanels) = 1
        /\ last.op = "sb.generateReply" =>
             /\ Len(sb.storyboard) = run.issued
             /\ SubSeq(sb.storyboard, 1, run.issued - 1) = run.newPanels
             /\ \A i \in 1..(run.issued - 1) : sb.storyboard[i].prompt = run.scriptLines[i]

\* the call of line 2 has just been issued
C6_Witness ==
  /\ sbGen # Null
  /\ last.op = "sb.generateReply"
  /\ sbGen[1].issued = 2
  /\ Len(sb.storyboard) = 2

\* ------------------------------------------------------------------ C7
\* the handler invocations of one kind that wait for the service
InFlight(kind, mounted) ==
  (IF mounted # Null THEN 1 ELSE 0)
  + Cardinality({i \in 1..Len(orphans) : orphans[i].kind = kind})

\* C7 as stated: at most one single-image generation and at most one
\* storyboard run are in flight.
C7_AsStated ==
  /\ InFlight("studioGen", studioGen) <= 1
  /\ InFlight("sbGen", sbGen) <= 1

\* ------------------------------------------------------------------ C8
\* C8 as stated: after switching to the other workflow and back, the
\* workflow that was left is in the state it was left in.
C8_AsStated ==
  trip.phase = "back" =>
    IF trip.tool = "imageStudio" THEN studio = trip.before ELSE sb = trip.before

\* ------------------------------------------------------------------ C9
\* C9: right after a single-image submission with a prompt of white space
\* only, the validation error is set, no call is out and the workflow is not
\* loading.
C9_BlankPromptRejected ==
  (last.op = "studio.handleGenerate" /\ AllWhitespace(studio.prompt))
    => /\ studio.error = Some("Please enter a prompt.")
       /\ studioGen = Null
       /\ ~studio.isLoading

\* a prompt of one space was submitted
C9_Witness ==
  /\ last.op = "studio.handleGenerate"
  /\ studio.prompt = <<SP>>
  /\ studio.error = Some("Please enter a prompt.")

\* ----------------------------------------------------------------- C10
\* C10: right after a single-image submission with a non-blank prompt one
\* call is out; its request is the image part then the text part when there
\* is an input image, and the text part alone when there is none; the
\* handler issues no call when it resumes.
C10_OneCallImageThenText ==
  /\ (last.op = "studio.handleGenerate" /\ ~AllWhitespace(studio.prompt))
       => /\ studioGen # Null
          /\ LET parts == studioGen[1].parts
             IN  IF studio.inputImage # Null
                 THEN /\ Len(parts) = 2
                      /\ parts[1].kind = "inlineData"
                      /\ parts[1].data = studio.inputImage[1].base64
                      /\ parts[1].mimeType = studio.inputImage[1].file.type
                      /\ parts[2] = TextPart(studio.prompt)
                 ELSE parts = <<TextPart(studio.prompt)>>
  /\ last.op = "studio.generateReply" => studioGen = Null

\* a non-blank prompt was submitted with an input image
C10_Witness ==
  /\ last.op = "studio.handleGenerate"
  /\ studioGen # Null
  /\ studio.inputImage # Null
  /\ Len(studioGen[1].parts) = 2

\* ----------------------------------------------------------------- C11
\* C11 as stated: a step that uploads an input image or clears it leaves no
\* output image and no error, and the prompt as it was.
C11_AsStated ==
  [][(\/ last'.op = "studio.handleImageUpload" /\ last'.info = "uploaded"
      \/ last'.op = "studio.handleClearImage") =>
       /\ studio'.outputImage = Null
       /\ studio'.error = Null
       /\ studio'.prompt = studio.prompt]_vars

\* ----------------------------------------------------------------- C12
\* C12: right after a single-image generation ended, the busy flag is
\* cleared; after a response with an image the image is the output and there
\* is no error; after a response without one, or a throw, the error message
\* is stored and there is no output.
C12_GenerationOutcome ==
  last.op = "studio.generateReply" =>
    /\ ~studio.isLoading
    /\ studioGen = Null
    /\ IF last.info = "image"
       THEN /\ studio.outputImage = Some(DataUrl(MimePng, "g1"))
            /\ studio.error = Null
       ELSE /\ studio.outputImage = Null
            /\ studio.error # Null
            /\ studio.error[1] \in
                 IF last.info = "noimage"
                 THEN {"Image generation failed. The model did not return an image."}
                 ELSE {"Failed to fetch", "An unknown error occurred."}

\* a generation was ended by a throwing call
C12_Witness ==
  /\ last.op = "studio.generateReply"
  /\ last.info = "threw"
  /\ studio.error = Some("Failed to fetch")
  /\ studio.outputImage = Null
  /\ ~studio.isLoading

\* ----------------------------------------------------------------- C13
\* C13: right after a storyboard submission made with no character or with a
\* script of white space only, a validation error is set and no run has
\* started: no call is out and the workflow is not loading.
C13_SubmissionRejected ==
  (last.op = "sb.handleGenerate" /\ (sb.character = Null \/ AllWhitespace(sb.script)))
    => /\ sb.error # Null
       /\ sb.error[1] \in {"Please upload or create a character reference image.",
                           "Please enter a script for the storyboard."}
       /\ sbGen = Null
       /\ ~sb.isLoading

\* a script of blank lines only was submitted with a character set
C13_Witness ==
  /\ last.op = "sb.handleGenerate"
  /\ sb.character # Null
  /\ sb.script = <<SP, NL, SP>>
  /\ sb.error = Some("Please enter a script for the storyboard.")
  /\ sbGen = Null

\* ---------------------------------------------------------- C14, C15
\* the places of '|' in a line, the text before the first one and the text
\* after it
Bars(line) == {i \in 1..Len(line) : line[i] = BAR}
FirstBar(line) == CHOOSE i \in Bars(line) : \A j \in Bars(line) : i <= j
BeforeFirstBar(line) == SubSeq(line, 1, FirstBar(line) - 1)
AfterFirstBar(line) == SubSeq(line, FirstBar(line) + 1, Len(line))

\* the line whose call is out, and the prompt of that call
LineInFlight == sbGen[1].scriptLines[sbGen[1].issued]
PromptInFlight == sbGen[1].parts[2].text

\* C14 as stated: the scene description of a line is the trimmed text before
\* its first '|' and the caption the trimmed text of everything after the
\* first '|'; a line without '|' has no caption.
C14_AsStated ==
  sbGen # Null =>
    IF Bars(LineInFlight) # {}
    THEN /\ PromptInFlight.scene = Trim(BeforeFirstBar(LineInFlight))
         /\ PromptInFlight.caption = Some(Trim(AfterFirstBar(LineInFlight)))
    ELSE /\ PromptInFlight.scene = Trim(LineInFlight)
         /\ PromptInFlight.caption = Null

\* C15: the prompt of a line 'A | B' (one '|', B not blank) is the panel
\* instruction with the scene A and the caption instruction with B; the
\* prompt of a line without '|' is the panel instruction with the scene and
\* no caption instruction.
C15_PromptOfLine ==
  sbGen # Null =>
    /\ PromptInFlight.template = "panel"
    /\ Bars(LineInFlight) = {} =>
         /\ PromptInFlight.scene = Trim(LineInFlight)
         /\ PromptInFlight.caption = Null
    /\ (Cardinality(Bars(LineInFlight)) = 1 /\ ~AllWhitespace(AfterFirstBar(LineInFlight))) =>
         /\ PromptInFlight.scene = Trim(BeforeFirstBar(LineInFlight))
         /\ PromptInFlight.caption = Some(Trim(AfterFirstBar(LineInFlight)))

\* the call of the line 'a | b' is out
C15_Witness ==
  /\ sbGen # Null
  /\ LineInFlight = <<"a", SP, BAR, SP, "b">>
  /\ PromptInFlight.scene = <<"a">>
  /\ PromptInFlight.caption = Some(<<"b">>)

\* ---------------------------------------------------------- C16
\* a step of the storyboard's handleGenerate on a script of white space only
BlankScriptSubmitted ==
  /\ StoryboardGenerator_handleGenerate
  /\ sb.character # Null
  /\ AllWhitespace(sb.script)

\* C16 as stated: a submission of a script with only blank lines completes
\* at once with no panel, no call and no error (the run is started and ends
\* with zero panels).
C16_AsStated ==
  [][BlankScriptSubmitted =>
       /\ sb'.error = Null
       /\ sb'.storyboard = <<>>
       /\ ~sb'.isLoading
       /\ sbGen' = Null]_vars

\* C16: a submission of a script with only blank lines is refused with the
\* script validation message; no run starts, no call is issued, and the
\* panels on screen stay as they were.
C16_BlankScriptRefused ==
  [][BlankScriptSubmitted =>
       /\ sb'.error = Some("Please enter a script for the storyboard.")
       /\ sb'.storyboard = sb.storyboard
       /\ sb'.isLoading = sb.isLoading /\ ~sb'.isLoading
       /\ sbGen' = sbGen /\ sbGen' = Null
       /\ orphans' = orphans]_vars

\* a blank script was refused while panels of an earlier run are on screen
C16_Witness ==
  /\ last.op = "sb.handleGenerate" /\ last.info = "rejected"
  /\ sb.character # Null
  /\ AllWhitespace(sb.script) /\ Len(sb.script) > 1
  /\ sb.storyboard # <<>>
  /\ sb.error = Some("Please enter a script for the storyboard.")

\* ---------------------------------------------------------- C17
\* C17 as stated: while the call of the k-th line (counted from 0) is out,
\* the panel list holds k + 1 entries: the k final panels of the earlier
\* lines, in order, and one pending placeholder at the end.
C17_AsStated ==
  sbGen # Null =>
    LET run == sbGen[1]
        k == run.issued - 1
    IN  /\ Len(run.newPanels) = k
        /\ Len(sb.storyboard) = k + 1
        /\ SubSeq(sb.storyboard, 1, k) = run.newPanels
        /\ sb.storyboard[k + 1].prompt = <<"loading">>
        /\ sb.storyboard[k + 1].src = EmptySrc

\* ---------------------------------------------------------- C18
\* the finalized panels of a panel list, in list order
FinalizedPanels(storyboard) == SelectSeq(storyboard, LAMBDA panel : panel.id[1] = "panel")

\* C18: at every point of a run of the displayed storyboard workflow, its
\* completion included, the i-th finalized panel of the panel list has as
\* label the i-th line of the work plan fixed at the start of the run, which
\* is the script's non-blank lines in script order, whether the line's call
\* gave an image or not.
C18_LabelsInScriptOrder ==
  [][(sbGen # Null /\ activeTool' = activeTool) =>
       LET plan == sbGen[1].scriptLines
           finalized == FinalizedPanels(sb'.storyboard)
       IN  /\ PlanFollowsScript(sbGen[1], sb.script)
           /\ sbGen' # Null => sbGen'[1].scriptLines = plan
           /\ Len(finalized) <= Len(plan)
           /\ \A i \in 1..Len(finalized) : finalized[i].prompt = plan[i]]_vars

\* a run of two different lines has ended with both panels on screen, the
\* first one failed
C18_Witness ==
  /\ last.op = "sb.generateReply"
  /\ sbGen = Null
  /\ Len(FinalizedPanels(sb.storyboard)) = 2
  /\ sb.storyboard[1].prompt # sb.storyboard[2].prompt
  /\ sb.storyboard[1].src = ErrorSrc
  /\ sb.storyboard[2].src # ErrorSrc

\* ---------------------------------------------------------- C19
\* C19: when every outstanding service call returns or throws in the end,
\* a started single-image generation, character generation and storyboard
\* run each lead to a state where the busy flag it set is clear and the
\* handler that set it has ended.
C19_BusyFlagsCleared ==
  /\ studio.isLoading ~> (~studio.isLoading /\ studioGen = Null)
  /\ sb.isCreatingCharacter ~> (~sb.isCreatingCharacter /\ charGen = Null)
  /\ sb.isLoading ~> (~sb.isLoading /\ sbGen = Null)

\* a character generation has ended with its busy flag clear
C19_Witness ==
  /\ last.op = "sb.createCharacterReply"
  /\ ~sb.isCreatingCharacter
  /\ charGen = Null

\* ---------------------------------------------------------- C20
\* C20 as stated: in every state of the storyboard workflow, when there is
\* no character reference the panel list is empty.
C20_AsStated == sb.character = Null => sb.storyboard = <<>>

\* ---------------------------------------------------------- C21
\* C21 as stated: whenever the storyboard's busy flag is false, the panel
\* list holds no pending placeholder, however the run ended.
C21_AsStated ==
  ~sb.isLoading =>
    \A i \in 1..Len(sb.storyboard) : sb.storyboard[i].id[1] # "loading"

\* ---------------------------------------------------------- C22
\* C22 as stated, for the panels of the run in flight: when a character is
\* set and finalized panels of the run are on screen, that character is the
\* one the run makes its calls with.
C22_AsStated ==
  (sbGen # Null /\ sb.character # Null /\ FinalizedPanels(sb.storyboard) # <<>>) =>
    sb.character[1] = sbGen[1].character

\* ---------------------------------------------------------- C23
\* how the render classifies a panel: panel.prompt === 'loading' is pending
RenderedAsPending(panel) == panel.prompt = <<"loading">>

\* C23 as stated: a finalized panel is never rendered as pending, whatever
\* the text of its script line.
C23_AsStated ==
  \A i \in 1..Len(sb.storyboard) :
    sb.storyboard[i].id[1] = "panel" => ~RenderedAsPending(sb.storyboard[i])

\* ---------------------------------------------------------- C24
\* C24 as stated: in the single-image workflow the output image and the
\* error message are never both present.
C24_AsStated == ~(studio.outputImage # Null /\ studio.error # Null)

====
